---- MODULE Spec2Model ----
(***************************************************************************)
(* GrainBrain: the sieve-analysis wizard of src/GrainBrain.py.              *)
(*                                                                         *)
(* The session state of the Streamlit script (step, sample_id,             *)
(* empty_weights, sample_weights), the file empty_sieve_weights.csv and    *)
(* what the step-4 block renders are the state.  Every button handler of   *)
(* main() is one action.  Floating-point values are modelled as exact      *)
(* rationals <<numerator, denominator>> in lowest terms, NaN as the empty  *)
(* tuple <<>>; the error strings read_weight() returns are a value of      *)
(* their own.  Weights are in grams, sizes in micrometres.                 *)
(***************************************************************************)
EXTENDS Integers, Sequences, FiniteSets, TLC

VARIABLES
    step,              \* st.session_state["step"]
    sample_id,         \* st.session_state["sample_id"]
    sample_id_input,   \* the value held by the "Sample ID" text_input widget
    empty_weights,     \* st.session_state["empty_weights"], a dict in insertion order
    sample_weights,    \* st.session_state["sample_weights"], a dict (order never read)
    csv_file,          \* empty_sieve_weights.csv on disk, <<>> when it does not exist
    result,            \* what the step-4 block produced on its latest run
    last,              \* how the latest handler ended
    computed           \* history: the step-4 block has run in this sample run

vars == <<step, sample_id, sample_id_input, empty_weights, sample_weights,
          csv_file, result, last, computed>>

(***************************************************************************)
(* Bounds of the model.                                                    *)
(***************************************************************************)
\* number of sieves of the stack the wizard model uses
NumSieves == 2
\* readings the scale gives in the wizard model: 5.000 g + k * 0.005 g, k in 0..MaxTick
MaxTick == 2
\* number of sieves of the largest dataset of the engine model
EngineSieves == 5
\* sieve+sample readings of the engine model: 5 g * k, k in 0..MaxReading
MaxReading == 5

(***************************************************************************)
(* Exact arithmetic standing for numpy's float64.                          *)
(***************************************************************************)
NaN == <<>>

\* the strings "Error: ..." that read_weight() returns instead of a number
ErrorString == <<0>>

IsNum(a) == Len(a) = 2

Abs(x) == IF x < 0 THEN -x ELSE x

RECURSIVE GCD(_, _)
GCD(a, b) == IF b = 0 THEN a ELSE GCD(b, a % b)

\* n/d in lowest terms with a positive denominator; a zero denominator gives NaN
Rat(n, d) ==
    IF d = 0 THEN NaN
    ELSE LET g == GCD(Abs(n), Abs(d))
             s == IF d < 0 THEN -1 ELSE 1
         IN  <<(s * n) \div g, (s * d) \div g>>

Int2Rat(n) == <<n, 1>>

RAdd(a, b) == IF IsNum(a) /\ IsNum(b) THEN Rat(a[1] * b[2] + b[1] * a[2], a[2] * b[2]) ELSE NaN
RSub(a, b) == IF IsNum(a) /\ IsNum(b) THEN Rat(a[1] * b[2] - b[1] * a[2], a[2] * b[2]) ELSE NaN
RMul(a, b) ==
    IF IsNum(a) /\ IsNum(b)
    THEN LET g1 == GCD(Abs(a[1]), b[2])
             g2 == GCD(Abs(b[1]), a[2])
         IN  Rat((a[1] \div g1) * (b[1] \div g2), (a[2] \div g2) * (b[2] \div g1))
    ELSE NaN
RDiv(a, b) == IF IsNum(a) /\ IsNum(b) THEN RMul(a, Rat(b[2], b[1])) ELSE NaN

\* comparisons of floats: every comparison with NaN is false
RLt(a, b) == IsNum(a) /\ IsNum(b) /\ a[1] * b[2] < b[1] * a[2]
RLe(a, b) == IsNum(a) /\ IsNum(b) /\ a[1] * b[2] <= b[1] * a[2]
REq(a, b) == IsNum(a) /\ IsNum(b) /\ a = b

RECURSIVE RSum(_)
RSum(s) == IF s = <<>> THEN Int2Rat(0) ELSE RAdd(Head(s), RSum(Tail(s)))

Reverse(s) == [i \in 1..Len(s) |-> s[Len(s) + 1 - i]]

SeqRange(s) == {s[i] : i \in 1..Len(s)}

(***************************************************************************)
(* Python dicts: a sequence of [key, val] with unique keys, in insertion   *)
(* order.  Setting an existing key keeps its position.                     *)
(***************************************************************************)
DictKeys(d) == [i \in 1..Len(d) |-> d[i].key]
DictHas(d, k) == \E i \in 1..Len(d) : d[i].key = k
DictGet(d, k) == d[CHOOSE i \in 1..Len(d) : d[i].key = k].val
DictSet(d, k, v) ==
    IF DictHas(d, k)
    THEN [i \in 1..Len(d) |-> IF d[i].key = k THEN [key |-> k, val |-> v] ELSE d[i]]
    ELSE Append(d, [key |-> k, val |-> v])

(***************************************************************************)
(* The sieve stack.                                                        *)
(***************************************************************************)
sieve_sizes == <<2000, 1700, 1410, 1180, 1000, 850, 710, 600, 500, 420,
                 355, 300, 250, 180, 150, 125, 106, 90, 74, 63, 0>>

\* the sieves of sieve_sizes a model of n sieves uses, by position in sieve_sizes
SieveChoice == <<5, 9, 21, 13, 1, 17, 3>>

\* the sieves of a stack of n sieves, in the order step 2 lists them
Stack(n) ==
    LET pos == SortSeq([i \in 1..n |-> SieveChoice[i]], LAMBDA a, b : a < b)
    IN  [i \in 1..n |-> sieve_sizes[pos[i]]]

WizardSizes == SeqRange(Stack(NumSieves))

(***************************************************************************)
(* read_weight(): a number, NaN, or an error string.                       *)
(***************************************************************************)
WizardNumbers == {Rat(1000 + k, 200) : k \in 0..MaxTick}

read_weight == WizardNumbers \cup {NaN, ErrorString}

\* a handler that stores whatever it reads
np_isnan_never(w) == "False"

\* np.isnan(weight): raises TypeError on a string
np_isnan(w) ==
    IF w = ErrorString THEN "TypeError"
    ELSE IF w = NaN THEN "True" ELSE "False"

(***************************************************************************)
(* Step 4: the grain-size statistics (GrainBrain.py lines 221-302).        *)
(***************************************************************************)
\* sorted([int(size) for size in empty_weights.keys()])
SelectedSizes(E) == SortSeq(DictKeys(E), LAMBDA a, b : a < b)

\* [empty_weights[size] for size in selected_sizes]
EmptyArray(E, sel) == [i \in 1..Len(sel) |-> DictGet(E, sel[i])]

\* [sample_weights.get(size, np.nan) for size in selected_sizes]
SampleArray(S, sel) ==
    [i \in 1..Len(sel) |-> IF sel[i] \in DOMAIN S THEN S[sel[i]] ELSE NaN]

\* np.all(np.isnan(a))
AllNaN(a) == \A i \in 1..Len(a) : ~IsNum(a[i])

\* net_weights = sample_weights - empty_weights
NetWeights(sample, empty) == [i \in 1..Len(sample) |-> RSub(sample[i], empty[i])]

\* np.argsort(a), for a of distinct integers
ArgSort(a) == SortSeq([i \in 1..Len(a) |-> i], LAMBDA i, j : a[i] < a[j])

\* a[idx]
Take(a, idx) == [i \in 1..Len(idx) |-> a[idx[i]]]

\* the loop over sorted_sizes: the midpoint to the next coarser sieve, 1.5 * size for the coarsest
MidSizes(sorted_sizes) ==
    [i \in 1..Len(sorted_sizes) |->
        IF i < Len(sorted_sizes)
        THEN Rat(sorted_sizes[i] + sorted_sizes[i + 1], 2)
        ELSE Rat(3 * sorted_sizes[i], 2)]

\* np.where(sorted_sizes == s)[0][0]
FirstIndex(a, s) == CHOOSE i \in 1..Len(a) : a[i] = s /\ \A j \in 1..(i - 1) : a[j] # s

\* [mid_sizes_sorted[np.where(sorted_sizes == s)[0][0]] for s in selected_sizes]
RestoreOrder(mids, sorted_sizes, sel) ==
    [i \in 1..Len(sel) |-> mids[FirstIndex(sorted_sizes, sel[i])]]

\* np.cumsum(a)
RECURSIVE CumSum(_)
CumSum(a) ==
    IF Len(a) = 0 THEN <<>>
    ELSE LET front == CumSum(SubSeq(a, 1, Len(a) - 1))
         IN  Append(front, IF Len(front) = 0 THEN a[1] ELSE RAdd(front[Len(front)], a[Len(a)]))

\* a running sum from the finest sieve up instead of from the coarsest down
CumulativeFromFinest(w) == CumSum(w)

\* np.cumsum(sorted_net_weights[::-1])[::-1]
Cumulative(w) == Reverse(CumSum(Reverse(w)))

\* cumulative / cumulative[0] * 100
Percents1(cum) == [i \in 1..Len(cum) |-> RMul(RDiv(cum[i], cum[1]), Int2Rat(100))]

\* 100 - (cumulative / cumulative[0] * 100)
Percents(cum) ==
    LET retained == Percents1(cum)
    IN  [i \in 1..Len(cum) |-> RSub(Int2Rat(100), retained[i])]

\* np.average(a, weights=w): sum(a * w) / sum(w)
Average(a, w) == RDiv(RSum([i \in 1..Len(a) |-> RMul(a[i], w[i])]), RSum(w))

\* numpy's binary_search_with_guess(key, arr, len, 0), 0-based: -1 below arr[0],
\* len above arr[len-1], a linear scan up to 4 entries, else the probes around the
\* guess and a bisection (the cache shortcuts need more than 9 entries)
RECURSIVE LinearScan(_, _, _)
LinearScan(key, arr, i) ==
    IF i < Len(arr) /\ RLe(arr[i + 1], key) THEN LinearScan(key, arr, i + 1) ELSE i - 1

RECURSIVE Bisect(_, _, _, _)
Bisect(key, arr, imin, imax) ==
    IF imin < imax
    THEN LET imid == imin + ((imax - imin) \div 2)
         IN  IF RLe(arr[imid + 1], key)
             THEN Bisect(key, arr, imid + 1, imax)
             ELSE Bisect(key, arr, imin, imid)
    ELSE imin - 1

BinarySearch(key, arr) ==
    LET len == Len(arr)
    IN  IF RLt(arr[len], key) THEN len
        ELSE IF RLt(key, arr[1]) THEN -1
        ELSE IF len <= 4 THEN LinearScan(key, arr, 1)
        ELSE IF RLt(key, arr[2])
             THEN (IF RLt(key, arr[1]) THEN Bisect(key, arr, 0, 0) ELSE 0)
             ELSE IF RLt(key, arr[3]) THEN 1
             ELSE IF RLt(key, arr[4]) THEN 2
             ELSE Bisect(key, arr, 3, len)

\* an interpolation that extends the end chords outside the table instead of
\* clamping to fp[0] / fp[-1]
InterpExtrapolating(x, xp, fp) ==
    IF Len(xp) = 1 THEN fp[1]
    ELSE LET j == BinarySearch(x, xp)
             k == IF j < 0 THEN 1 ELSE IF j >= Len(xp) - 1 THEN Len(xp) - 1 ELSE j + 1
             slope == RDiv(RSub(fp[k + 1], fp[k]), RSub(xp[k + 1], xp[k]))
         IN  RAdd(RMul(slope, RSub(x, xp[k])), fp[k])

\* np.interp(x, xp, fp) for a scalar x: fp[0] / fp[-1] outside the table, the
\* table value on a knot, the chord between the two neighbours otherwise
Interp(x, xp, fp) ==
    IF Len(xp) = 1 THEN fp[1]
    ELSE IF \E i \in 1..Len(xp) : ~IsNum(xp[i]) \/ ~IsNum(fp[i]) THEN NaN
    ELSE LET j == BinarySearch(x, xp)
         IN  IF j = -1 THEN fp[1]
             ELSE IF j = Len(xp) THEN fp[Len(xp)]
             ELSE IF j = Len(xp) - 1 THEN fp[j + 1]
             ELSE IF xp[j + 1] = x THEN fp[j + 1]
             ELSE LET slope == RDiv(RSub(fp[j + 2], fp[j + 1]), RSub(xp[j + 2], xp[j + 1]))
                  IN  RAdd(RMul(slope, RSub(x, xp[j + 1])), fp[j + 1])

\* np.round(r): to the nearest integer, halves to the even one
RoundHalfEven(r) ==
    LET q   == r[1] \div r[2]
        rem == r[1] - q * r[2]
    IN  IF 2 * rem < r[2] THEN q
        ELSE IF 2 * rem > r[2] THEN q + 1
        ELSE IF q % 2 = 0 THEN q ELSE q + 1

\* np.round(sorted_net_weights * 100).astype(int); the cast of NaN is the most
\* negative integer on x86 and 0 on ARM: nanAs is the build's choice
Repeats(w, nanAs) ==
    [i \in 1..Len(w) |->
        IF IsNum(w[i]) THEN RoundHalfEven(RMul(w[i], Int2Rat(100))) ELSE nanAs]

\* bins = np.concatenate((mids, [mids[-1] + 1]))
Bins(mids) == Append(mids, RAdd(mids[Len(mids)], Int2Rat(1)))

\* np.histogram(np.repeat(mids, repeats), bins=bins)[0]: bin i holds the values v
\* with bins[i] <= v < bins[i+1], the last bin its right edge too
RECURSIVE IntSum(_)
IntSum(s) == IF Len(s) = 0 THEN 0 ELSE s[1] + IntSum(Tail(s))

Histogram(mids, repeats, bins) ==
    LET n == Len(bins) - 1
        InBin(v, i) == RLe(bins[i], v) /\ (RLt(v, bins[i + 1]) \/ (i = n /\ v = bins[i + 1]))
    IN  [i \in 1..n |->
            IntSum([k \in 1..Len(mids) |-> IF InBin(mids[k], i) THEN repeats[k] ELSE 0])]

\* scipy.signal.find_peaks(x)[0] (_local_maxima_1d): the middle (rounded down) of
\* every run of equal samples that rises on its left and falls on its right;
\* the first and the last sample are never peaks.  Indices are 1-based here.
RECURSIVE PlateauEnd(_, _, _)
PlateauEnd(x, ahead, i) ==
    IF ahead < Len(x) /\ x[ahead] = x[i] THEN PlateauEnd(x, ahead + 1, i) ELSE ahead

RECURSIVE LocalMaxima(_, _)
LocalMaxima(x, i) ==
    IF i >= Len(x) THEN <<>>
    ELSE IF x[i - 1] < x[i]
         THEN LET ahead == PlateauEnd(x, i + 1, i)
              IN  IF x[ahead] < x[i]
                  THEN <<(i + ahead - 1) \div 2>> \o LocalMaxima(x, ahead + 1)
                  ELSE LocalMaxima(x, i + 1)
         ELSE LocalMaxima(x, i + 1)

find_peaks(x) == LocalMaxima(x, 2)

\* np.argsort(peak_counts)[::-1]: the peaks by count, highest first; numpy's
\* default sort is not stable, so equal counts may come in any order
PeakOrders(peak_counts) ==
    LET m == Len(peak_counts)
    IN  {p \in [1..m -> 1..m] :
            /\ \A i, j \in 1..m : i # j => p[i] # p[j]
            /\ \A i \in 1..(m - 1) : peak_counts[p[i]] >= peak_counts[p[i + 1]]}

\* peak_sizes[order][:3] padded with NaN to three entries
Modes(peak_sizes, order) ==
    [i \in 1..3 |-> IF i <= Len(order) THEN peak_sizes[order[i]] ELSE NaN]

\* a step-4 run that showed no statistics
NoResult ==
    [status |-> "none", selected_sizes |-> <<>>, mid_sizes |-> <<>>, net_weights |-> <<>>,
     cumulative |-> <<>>, percents1 |-> <<>>, percents |-> <<>>, hist |-> <<>>,
     mean_size |-> NaN, d10 |-> NaN, d50 |-> NaN, d90 |-> NaN, modes |-> <<>>]

Raised(exception) == [NoResult EXCEPT !.status = exception]

\* lines 283-302 for one cast of NaN and one order of the peaks
ModesOutcomes(r, sorted_net_weights, nanAs) ==
    LET repeats == Repeats(sorted_net_weights, nanAs)
        bins    == Bins(r.mid_sizes)
    IN  IF \E i \in 1..Len(repeats) : repeats[i] < 0
        THEN {Raised("ValueError")}        \* np.repeat: repeats may not contain negative values
        ELSE IF \E i \in 1..(Len(bins) - 1) : RLt(bins[i + 1], bins[i])
        THEN {Raised("ValueError")}        \* np.histogram: bins must increase monotonically
        ELSE LET hist        == Histogram(r.mid_sizes, repeats, bins)
                 peaks       == find_peaks(hist)
                 peak_sizes  == Take(r.mid_sizes, peaks)
                 peak_counts == Take(hist, peaks)
             IN  {[r EXCEPT !.status = "ok", !.hist = hist, !.modes = Modes(peak_sizes, order)] :
                     order \in PeakOrders(peak_counts)}

\* the step-4 block of main(): every result it can produce for session state E, S
Step4(E, S) ==
    LET selected_sizes == SelectedSizes(E)
        empty          == EmptyArray(E, selected_sizes)
        sample         == SampleArray(S, selected_sizes)
        net_weights    == NetWeights(sample, empty)
    IN  IF AllNaN(sample) THEN {Raised("no_sample_weights")}
        ELSE IF AllNaN(net_weights) THEN {Raised("no_net_weights")}
        ELSE
        LET sorted_indices     == ArgSort(selected_sizes)
            sorted_sizes       == Take(selected_sizes, sorted_indices)
            sorted_net_weights == Take(net_weights, sorted_indices)
            mid_sizes_sorted   == RestoreOrder(MidSizes(sorted_sizes), sorted_sizes, selected_sizes)
            base == [NoResult EXCEPT !.selected_sizes = selected_sizes,
                                     !.mid_sizes = mid_sizes_sorted,
                                     !.net_weights = net_weights]
        IN  IF REq(RSum(sorted_net_weights), Int2Rat(0))
            \* mid_sizes_sorted_array is assigned in the else branch only: line 284 reads
            \* an unbound local
            THEN {Raised("UnboundLocalError")}
            ELSE
            LET cumulative == Cumulative(sorted_net_weights)
                percents1  == Percents1(cumulative)
                stats == [base EXCEPT
                    !.cumulative = cumulative,
                    !.percents1  = percents1,
                    !.percents   = Percents(cumulative),
                    !.mean_size  = Average(mid_sizes_sorted, sorted_net_weights),
                    !.d90 = Interp(Int2Rat(10), Reverse(percents1), Reverse(mid_sizes_sorted)),
                    !.d50 = Interp(Int2Rat(50), Reverse(percents1), Reverse(mid_sizes_sorted)),
                    !.d10 = Interp(Int2Rat(90), Reverse(percents1), Reverse(mid_sizes_sorted))]
            IN  IF \E i \in 1..Len(sorted_net_weights) : ~IsNum(sorted_net_weights[i])
                THEN ModesOutcomes(stats, sorted_net_weights, -1)
                        \cup ModesOutcomes(stats, sorted_net_weights, 0)
                ELSE ModesOutcomes(stats, sorted_net_weights, 0)

\* the step-4 block reached its "Back" button: it raised nothing
ShowsBack(r) == r.status \in {"ok", "no_sample_weights", "no_net_weights"}

(***************************************************************************)
(* The wizard.                                                             *)
(***************************************************************************)
SampleIds == {"", "S-1"}

\* a file a previous run left behind: one sieve weighed
OldFiles == {<<>>} \cup {<<[key |-> Stack(NumSieves)[1], val |-> w]>> : w \in WizardNumbers}

Init ==
    /\ step = 1
    /\ sample_id = ""
    /\ sample_id_input = ""
    /\ empty_weights = <<>>
    /\ sample_weights = <<>>
    /\ csv_file \in OldFiles
    /\ result = NoResult
    /\ last = "none"
    /\ computed = FALSE

\* step 1: the text_input
EnterSampleId(id) ==
    /\ step = 1
    /\ sample_id_input' = id
    /\ sample_id' = IF id # "" THEN id ELSE sample_id
    /\ last' = "none"
    /\ UNCHANGED <<step, empty_weights, sample_weights, csv_file, result, computed>>

\* step 1: "Use Existing Data"
UseExistingData ==
    /\ step = 1
    /\ csv_file # <<>>
    /\ empty_weights' = csv_file
    /\ last' = "success"
    /\ UNCHANGED <<step, sample_id, sample_id_input, sample_weights, csv_file, result, computed>>

\* step 1: "Recalibrate"
Recalibrate ==
    /\ step = 1
    /\ csv_file # <<>>
    /\ empty_weights' = <<>>
    /\ last' = "warning"
    /\ UNCHANGED <<step, sample_id, sample_id_input, sample_weights, csv_file, result, computed>>

\* step 1: "Next"
Next1 ==
    /\ step = 1
    /\ IF sample_id_input = ""
       THEN /\ last' = "warning"
            /\ UNCHANGED step
       ELSE /\ step' = 2
            /\ last' = "none"
    /\ UNCHANGED <<sample_id, sample_id_input, empty_weights, sample_weights, csv_file,
                   result, computed>>

\* step 2: "Measure <size>"
MeasureEmpty(size, weight) ==
    /\ step = 2
    /\ LET nan == np_isnan(weight)
       IN  IF nan = "TypeError"
           THEN /\ last' = "TypeError"
                /\ UNCHANGED empty_weights
           ELSE IF nan = "True"
           THEN /\ last' = "measurement_failed"
                /\ UNCHANGED empty_weights
           ELSE /\ empty_weights' = DictSet(empty_weights, size, weight)
                /\ last' = "success"
    /\ UNCHANGED <<step, sample_id, sample_id_input, sample_weights, csv_file, result, computed>>

\* step 2: "Next"
Next2 ==
    /\ step = 2
    /\ IF Len(empty_weights) = 0
       THEN /\ last' = "warning"
            /\ UNCHANGED <<step, csv_file>>
       ELSE /\ csv_file' = empty_weights
            /\ step' = 3
            /\ last' = "none"
    /\ UNCHANGED <<sample_id, sample_id_input, empty_weights, sample_weights, result, computed>>

\* step 3: "Measure Sample <size>", one button per key of empty_weights
MeasureSample(size, weight) ==
    /\ step = 3
    /\ DictHas(empty_weights, size)
    /\ LET nan == np_isnan(weight)
       IN  IF nan = "TypeError"
           THEN /\ last' = "TypeError"
                /\ UNCHANGED sample_weights
           ELSE IF nan = "True"
           THEN /\ last' = "measurement_failed"
                /\ UNCHANGED sample_weights
           ELSE /\ sample_weights' = (size :> weight) @@ sample_weights
                /\ last' = "success"
    /\ UNCHANGED <<step, sample_id, sample_id_input, empty_weights, csv_file, result, computed>>

\* a "Next" that does not look at what was measured
IncompleteNever(S, E) == FALSE

\* len(sample_weights) < len(empty_weights)
Incomplete(S, E) == Cardinality(DOMAIN S) < Len(E)

\* step 3: "Next", and the rerun it asks for, which runs the step-4 block
Next3 ==
    /\ step = 3
    /\ IF Incomplete(sample_weights, empty_weights)
       THEN /\ last' = "warning"
            /\ UNCHANGED <<step, result, computed>>
       ELSE /\ step' = 4
            /\ result' \in Step4(empty_weights, sample_weights)
            /\ computed' = TRUE
            /\ last' = "none"
    /\ UNCHANGED <<sample_id, sample_id_input, empty_weights, sample_weights, csv_file>>

\* a "Back" that returns to the empty-sieve step
Back4ToStep2 ==
    /\ step = 4
    /\ ShowsBack(result)
    /\ step' = 2
    /\ result' = NoResult
    /\ last' = "none"
    /\ UNCHANGED <<sample_id, sample_id_input, empty_weights, sample_weights, csv_file, computed>>

\* step 4: "Back", shown when the block ran to its end
Back4 ==
    /\ step = 4
    /\ ShowsBack(result)
    /\ step' = 3
    /\ result' = NoResult
    /\ last' = "none"
    /\ UNCHANGED <<sample_id, sample_id_input, empty_weights, sample_weights, csv_file, computed>>

Next ==
    \/ \E id \in SampleIds : EnterSampleId(id)
    \/ UseExistingData
    \/ Recalibrate
    \/ Next1
    \/ \E size \in WizardSizes, weight \in read_weight : MeasureEmpty(size, weight)
    \/ Next2
    \/ \E size \in WizardSizes, weight \in read_weight : MeasureSample(size, weight)
    \/ Next3
    \/ Back4

Spec == Init /\ [][Next]_vars

(***************************************************************************)
(* The statistics engine on its own: the wizard at step 3 with every       *)
(* sieve of a stack weighed (each sieve 5 g empty, measured from the top   *)
(* of the list down) and "Next" computing the statistics.                  *)
(***************************************************************************)
EngineReadings == {Int2Rat(5 * k) : k \in 0..MaxReading}

EngineTare == Int2Rat(5)

EngineInit ==
    \E n \in 1..EngineSieves :
        /\ step = 3
        /\ sample_id = "S-1"
        /\ sample_id_input = "S-1"
        /\ empty_weights = [i \in 1..n |-> [key |-> Stack(n)[i], val |-> EngineTare]]
        /\ sample_weights \in [SeqRange(Stack(n)) -> EngineReadings]
        /\ csv_file = empty_weights
        /\ result = NoResult
        /\ last = "success"
        /\ computed = FALSE

EngineNext == Next3

SpecEngine == EngineInit /\ [][EngineNext]_vars

(***************************************************************************)
(* The dataset as the session state holds it, for stating the properties.  *)
(***************************************************************************)
Sizes == SeqRange(DictKeys(empty_weights))

Weighed == {s \in Sizes : s \in DOMAIN sample_weights}

\* net weight of sieve s: sieve+sample minus empty
NetOf(s) == RSub(sample_weights[s], DictGet(empty_weights, s))

RECURSIVE MassOf(_)
MassOf(S) ==
    IF S = {} THEN Int2Rat(0)
    ELSE LET s == CHOOSE t \in S : TRUE IN RAdd(NetOf(s), MassOf(S \ {s}))

TotalMass == MassOf(Weighed)

\* position of sieve s when the sieves are taken by ascending size
Rank(s) == Cardinality({t \in Sizes : t < s}) + 1

SizeAt(i) == CHOOSE s \in Sizes : Rank(s) = i

Coarsest == CHOOSE s \in Sizes : \A t \in Sizes : t <= s

Finest == CHOOSE s \in Sizes : \A t \in Sizes : s <= t

\* the statistics are on display
Shown == step = 4 /\ result.status = "ok"

Absent3 == <<NaN, NaN, NaN>>

(***************************************************************************)
(* C1: when the net weights sum to exactly zero, step 4 completes without  *)
(* raising and yields the degenerate result: meanSize, d10, d50, d90       *)
(* absent, the cumulative-passing sequence all zeros, all three mode slots *)
(* absent.                                                                 *)
(***************************************************************************)
C1_ZeroMassGivesDegenerateResult ==
    (step = 4 /\ Weighed = Sizes /\ TotalMass = Int2Rat(0)) =>
        /\ result.status = "ok"
        /\ result.mean_size = NaN /\ result.d10 = NaN /\ result.d50 = NaN /\ result.d90 = NaN
        /\ Len(result.percents) = Cardinality(Sizes)
        /\ \A i \in 1..Len(result.percents) : result.percents[i] = Int2Rat(0)
        /\ result.modes = Absent3

(***************************************************************************)
(* C2: with non-zero total mass and a sieve of negative net weight, step 4 *)
(* does not raise: the sieve gets max(0, round(netWeight * 100)) = 0       *)
(* entries in the weighted histogram and a well-formed result is returned. *)
(***************************************************************************)
C2_NegativeNetWeightTolerated ==
    (step = 4 /\ Weighed = Sizes /\ TotalMass # Int2Rat(0)
        /\ \E s \in Sizes : RLt(NetOf(s), Int2Rat(0))) =>
        /\ result.status = "ok"
        /\ Len(result.modes) = 3
        /\ Len(result.hist) = Cardinality(Sizes)
        /\ \A s \in Sizes : RLt(NetOf(s), Int2Rat(0)) => result.hist[Rank(s)] = 0

(***************************************************************************)
(* C3: with the sieves by ascending size, cumulative[i] is the sum of the  *)
(* net weights of sieve i and every coarser one, so cumulative[0] is the   *)
(* total mass.  As claimed: cumulative[last] is the mass of the pan (the   *)
(* finest sieve) alone, and sizes [1000, 500, 0] with net weights          *)
(* [10, 20, 5] give [35, 25, 5].                                           *)
(***************************************************************************)
SuffixSums ==
    \A i \in 1..Len(result.cumulative) :
        result.cumulative[i] = MassOf({s \in Sizes : Rank(s) >= i})

ExampleDataset ==
    /\ Sizes = {1000, 500, 0}
    /\ Weighed = Sizes
    /\ NetOf(1000) = Int2Rat(10) /\ NetOf(500) = Int2Rat(20) /\ NetOf(0) = Int2Rat(5)

C3_CumulativeLastIsPan ==
    Shown =>
        /\ Len(result.cumulative) = Cardinality(Sizes)
        /\ SuffixSums
        /\ result.cumulative[1] = TotalMass
        /\ result.cumulative[Len(result.cumulative)] = NetOf(Finest)
        /\ (ExampleDataset => result.cumulative = <<Int2Rat(35), Int2Rat(25), Int2Rat(5)>>)

\* C3 as amended: cumulative[last] is the mass of the coarsest sieve alone, and
\* the example gives [35, 30, 10].
C3_CumulativeLastIsCoarsest ==
    Shown =>
        /\ Len(result.cumulative) = Cardinality(Sizes)
        /\ SuffixSums
        /\ result.cumulative[1] = TotalMass
        /\ result.cumulative[Len(result.cumulative)] = NetOf(Coarsest)
        /\ (ExampleDataset => result.cumulative = <<Int2Rat(35), Int2Rat(30), Int2Rat(10)>>)

\* the example dataset's statistics are on display
C3_ExampleShown == Shown /\ ExampleDataset

\* the mid-size of sieve s: halfway to the next coarser sieve, 1.5 * s for the coarsest
MidOf(s) == IF s = Coarsest THEN Rat(3 * s, 2) ELSE Rat(s + SizeAt(Rank(s) + 1), 2)

(***************************************************************************)
(* C4: the rows handed to display and export (sieve size, mid-size, net    *)
(* weight) are in the order the sieve sizes were first recorded, not in    *)
(* sorted order, each mid-size beside its own sieve size.                  *)
(***************************************************************************)
C4_RowsInInsertionOrder ==
    Shown =>
        /\ result.selected_sizes = DictKeys(empty_weights)
        /\ \A i \in 1..Len(result.selected_sizes) :
            /\ result.mid_sizes[i] = MidOf(result.selected_sizes[i])
            /\ result.net_weights[i] = NetOf(result.selected_sizes[i])

(***************************************************************************)
(* C5: the statistics of step 4 are computed only when every sieve with an *)
(* empty weight has a sieve+sample weight and no sieve+sample weight       *)
(* belongs to a sieve without an empty weight.                             *)
(***************************************************************************)
C5_StatisticsOnlyOnCompleteDataset ==
    step = 4 =>
        /\ DOMAIN sample_weights = Sizes
        /\ result.status \notin {"none", "no_sample_weights", "no_net_weights"}

\* statistics on display for a stack with every sieve weighed twice
C5_FullStackComputed == Shown /\ Len(empty_weights) = NumSieves

(***************************************************************************)
(* C6: one sieve with positive net weight: meanSize, d10, d50 and d90 all  *)
(* equal its mid-size, modes[0] equals it, the other two slots are absent. *)
(***************************************************************************)
C6_SingleSieveStatistics ==
    (step = 4 /\ Cardinality(Sizes) = 1 /\ Weighed = Sizes
        /\ RLt(Int2Rat(0), NetOf(Coarsest))) =>
        /\ result.status = "ok"
        /\ result.mean_size = MidOf(Coarsest)
        /\ result.d10 = MidOf(Coarsest) /\ result.d50 = MidOf(Coarsest)
        /\ result.d90 = MidOf(Coarsest)
        /\ result.modes = <<MidOf(Coarsest), NaN, NaN>>

(***************************************************************************)
(* C7: two well-separated clusters of weight (each rising to one heaviest  *)
(* sieve and falling, nothing on the sieves between them), wherever they   *)
(* lie in the size range: exactly two modes, the mid-sizes of the two      *)
(* heaviest sieves, and the third slot absent.                             *)
(***************************************************************************)
WeightAt(i) == NetOf(SizeAt(i))

\* sieves lo..hi hold positive weight rising strictly to sieve top, then falling strictly
Cluster(lo, top, hi) ==
    /\ lo <= top /\ top <= hi
    /\ \A i \in lo..hi : RLt(Int2Rat(0), WeightAt(i))
    /\ \A i \in lo..(top - 1) : RLt(WeightAt(i), WeightAt(i + 1))
    /\ \A i \in top..(hi - 1) : RLt(WeightAt(i + 1), WeightAt(i))
    /\ RLe(Int2Rat(10), WeightAt(top))

TwoClusters(a, b) ==
    LET n == Cardinality(Sizes)
    IN  \E g1, g2 \in 1..n :
            /\ a < g1 /\ g1 <= g2 /\ g2 < b
            /\ \A i \in g1..g2 : WeightAt(i) = Int2Rat(0)
            /\ Cluster(1, a, g1 - 1)
            /\ Cluster(g2 + 1, b, n)

C7_TwoClustersGiveTwoModes ==
    (step = 4 /\ Weighed = Sizes) =>
        \A a, b \in 1..Cardinality(Sizes) :
            TwoClusters(a, b) =>
                /\ result.status = "ok"
                /\ Len(result.modes) = 3
                /\ {result.modes[1], result.modes[2]} = {MidOf(SizeAt(a)), MidOf(SizeAt(b))}
                /\ result.modes[3] = NaN

(***************************************************************************)
(* C8: for every dataset the modes are exactly 3 slots: the mid-sizes of   *)
(* the histogram bins strictly higher than both immediate neighbours, by   *)
(* count descending, the top 3, padded with the absent value; each bin's   *)
(* count is the sieve's round(netWeight * 100).                            *)
(***************************************************************************)
StrictPeaks(h) == {i \in 2..(Len(h) - 1) : h[i - 1] < h[i] /\ h[i + 1] < h[i]}

TopPeaksInSlots(h, modes) ==
    LET P == StrictPeaks(h)
        m == IF Cardinality(P) < 3 THEN Cardinality(P) ELSE 3
    IN  /\ Len(modes) = 3
        /\ \A k \in (m + 1)..3 : modes[k] = NaN
        /\ \E f \in [1..m -> P] :
            /\ \A j, k \in 1..m : j # k => f[j] # f[k]
            /\ \A k \in 1..m : modes[k] = MidOf(SizeAt(f[k]))
            /\ \A k \in 1..(m - 1) : h[f[k]] >= h[f[k + 1]]
            /\ \A p \in P : (\A k \in 1..m : f[k] # p) => h[p] <= h[f[m]]

C8_ModesAreTopStrictPeaks ==
    (step = 4 /\ Weighed = Sizes) =>
        /\ result.status = "ok"
        /\ Len(result.hist) = Cardinality(Sizes)
        /\ \A i \in 1..Len(result.hist) :
            result.hist[i] = RoundHalfEven(RMul(WeightAt(i), Int2Rat(100)))
        /\ TopPeaksInSlots(result.hist, result.modes)

(***************************************************************************)
(* C9: a reading that is unavailable, in the empty-sieve phase or in the   *)
(* sieve+sample phase, stores nothing, leaves every recorded weight and    *)
(* the wizard step as they were, and the sieve can be measured again; no   *)
(* absent/NaN value is ever stored in the dataset.                         *)
(***************************************************************************)
Failed == {"measurement_failed", "TypeError"}

StoredAreNumbers ==
    /\ \A i \in 1..Len(empty_weights) : IsNum(empty_weights[i].val)
    /\ \A i \in 1..Len(csv_file) : IsNum(csv_file[i].val)
    /\ \A s \in DOMAIN sample_weights : IsNum(sample_weights[s])

C9_FailedReadingStoresNothing ==
    /\ []StoredAreNumbers
    /\ [][last' \in Failed =>
            /\ step \in {2, 3} /\ step' = step
            /\ empty_weights' = empty_weights
            /\ sample_weights' = sample_weights
            /\ csv_file' = csv_file]_vars

\* a reading failed in the sieve+sample phase with weights of both phases on record
C9_FailedWithWeightsOnRecord ==
    last \in Failed /\ step = 3 /\ DOMAIN sample_weights # {} /\ ~computed

(***************************************************************************)
(* C10: once the statistics have been computed, no later action of the     *)
(* sample run changes any recorded empty weight or sieve+sample weight.    *)
(***************************************************************************)
C10_DatasetFrozenOnceComputed ==
    [][computed => (empty_weights' = empty_weights /\ sample_weights' = sample_weights)]_vars

\* C10 as amended: the empty weights and the set of weighed sieves no longer
\* change, and nothing changes while the results are shown; after "Back" a
\* sieve+sample weight can be measured again and overwritten.
C10_EmptyWeightsFrozenOnceComputed ==
    [][computed =>
            /\ empty_weights' = empty_weights
            /\ DOMAIN sample_weights' = DOMAIN sample_weights
            /\ (step = 4 => sample_weights' = sample_weights)]_vars

\* a sieve+sample weight stored after the statistics were computed
C10_RemeasuredAfterBack == computed /\ step = 3 /\ last = "success"

(***************************************************************************)
(* C11: for every dataset step 4 accepts with non-zero total mass, zero    *)
(* and negative net weights included, the abscissa handed to np.interp,    *)
(* the percent retained and coarser taken by decreasing sieve size         *)
(* (percents1[::-1]), is monotonically non-decreasing.                     *)
(***************************************************************************)
\* percents1[::-1], the xp argument of the three np.interp calls
Abscissa == Reverse(result.percents1)

NonDecreasing(xp) == \A i \in 1..(Len(xp) - 1) : RLe(xp[i], xp[i + 1])

C11_AbscissaNonDecreasing ==
    (Shown /\ Weighed = Sizes /\ TotalMass # Int2Rat(0)) =>
        /\ Len(Abscissa) = Cardinality(Sizes)
        /\ NonDecreasing(Abscissa)

(***************************************************************************)
(* C12: for every dataset with all net weights non-negative and positive   *)
(* total mass, the diameters interpolated at 90, 50 and 10 percent         *)
(* retained and coarser satisfy d10 <= d50 <= d90, and each lies between   *)
(* the smallest and the largest mid-size of the dataset: a query outside   *)
(* the table is clamped to its end value.                                  *)
(***************************************************************************)
NonNegative == \A s \in Sizes : RLe(Int2Rat(0), NetOf(s))

WithinMidSizes(d) == RLe(MidOf(Finest), d) /\ RLe(d, MidOf(Coarsest))

C12_PercentilesOrderedWithinMidSizes ==
    (step = 4 /\ Weighed = Sizes /\ NonNegative /\ RLt(Int2Rat(0), TotalMass)) =>
        /\ result.status = "ok"
        /\ RLe(result.d10, result.d50) /\ RLe(result.d50, result.d90)
        /\ WithinMidSizes(result.d10)
        /\ WithinMidSizes(result.d50)
        /\ WithinMidSizes(result.d90)

\* three distinct diameters on display, d90 clamped to the largest mid-size
\* (more than 10 percent on the coarsest sieve), one sieve empty of sample
C12_OrderedAndClamped ==
    /\ Shown /\ Weighed = Sizes /\ NonNegative /\ RLt(Int2Rat(0), TotalMass)
    /\ Cardinality(Sizes) >= 3
    /\ \E s \in Sizes : NetOf(s) = Int2Rat(0)
    /\ RLt(Int2Rat(10), RMul(RDiv(NetOf(Coarsest), TotalMass), Int2Rat(100)))
    /\ result.d90 = MidOf(Coarsest)
    /\ RLt(result.d10, result.d50) /\ RLt(result.d50, result.d90)

====
